---------------------------- MODULE Spec2Model ----------------------------
(***************************************************************************)
(* The websocket endpoint of src/app.py:                                   *)
(*                                                                         *)
(*     @app.websocket("/")                                                 *)
(*     async def root(ws: WebSocket):                                      *)
(*         await ws.accept()                          (line 8)             *)
(*         while True:                                (line 9)             *)
(*             await ws.send_text("Hello!")           (line 10)            *)
(*             print("Hello!")                        (line 11)            *)
(*             received = await ws.receive_text()     (line 12)            *)
(*             print(received)                        (line 13)            *)
(*                                                                         *)
(* One instance of root runs per connection.  Every await is modelled by   *)
(* two steps: issuing the operation and its completion (with a result or   *)
(* with an exception).  root has no try/except, so an exception raised by  *)
(* an awaited operation leaves root at once.  The two print calls write to *)
(* the one standard output of the process.                                 *)
(***************************************************************************)
EXTENDS Integers, Sequences, FiniteSets

VARIABLES
    pc,           \* per connection: the line of root the instance is at
    outstanding,  \* per connection: the awaited operations not yet completed
    ops,          \* per connection: the operations issued so far, in order
    state,        \* per connection: Unaccepted, Open or Closed
    received,     \* per connection: the local variable `received`
    exc,          \* per connection: the exception that left root, if any
    wire,         \* per connection: the texts handed to the transport
    inbox,        \* per connection: peer messages not yet returned by receive
    transmitted,  \* per connection: every message the peer transmitted
    peerClosed,   \* per connection: the peer has closed the connection
    log           \* standard output: one record per print call

vars == <<pc, outstanding, ops, state, received, exc, wire, inbox,
          transmitted, peerClosed, log>>

\* Bounds of the exploration: the greetings handed to the transport and the
\* messages transmitted by the peers, counted over all connections.  root
\* itself has no such limit (line 9 is `while True`).
MaxSends == 3
MaxTransmit == 3

\* Two connections, each served by its own instance of root.
Conns == {1, 2}

\* The summed length of the sequences f[c], c in S.
RECURSIVE Total(_, _)
Total(f, S) ==
    IF S = {} THEN 0
    ELSE LET c == CHOOSE x \in S : TRUE IN Len(f[c]) + Total(f, S \ {c})

\* Texts a peer may transmit; the greeting itself and an error-like text
\* are among them.
Msgs == {"ping", "Hello!"}

\* The value of `received` before line 12 has assigned it.
Unbound == "<unbound>"

Errors == {"HandshakeError", "ConnectionClosed", "TransportError"}

\* The argument of ws.send_text on line 10.
SentText == "Hello!"

\* The argument of print on line 11.
PrintedGreeting == "Hello!"

\* The records of connection c on standard output, in order.
LogOf(c) == SelectSeq(log, LAMBDA r : r.conn = c)

\* The records of one kind of connection c.
KindOf(c, k) == SelectSeq(log, LAMBDA r : r.conn = c /\ r.kind = k)

Init ==
    /\ pc = [c \in Conns |-> "accept"]
    /\ outstanding = [c \in Conns |-> {}]
    /\ ops = [c \in Conns |-> <<>>]
    /\ state = [c \in Conns |-> "Unaccepted"]
    /\ received = [c \in Conns |-> Unbound]
    /\ exc = [c \in Conns |-> "none"]
    /\ wire = [c \in Conns |-> <<>>]
    /\ inbox = [c \in Conns |-> <<>>]
    /\ transmitted = [c \in Conns |-> <<>>]
    /\ peerClosed = [c \in Conns |-> FALSE]
    /\ log = <<>>

\* The awaited operation `op` of line `at` is called; root stays at that
\* line until the operation completes.
Issue(c, at, op) ==
    /\ pc[c] = at
    /\ op \notin outstanding[c]
    /\ outstanding' = [outstanding EXCEPT ![c] = @ \cup {op}]
    /\ ops' = [ops EXCEPT ![c] = Append(@, op)]

\* Variant of Raise: an I/O failure is reported on standard output before
\* root ends.
RaiseReported(c, op, e) ==
    /\ op \in outstanding[c]
    /\ outstanding' = [outstanding EXCEPT ![c] = @ \ {op}]
    /\ pc' = [pc EXCEPT ![c] = "done"]
    /\ exc' = [exc EXCEPT ![c] = e]
    /\ state' = [state EXCEPT ![c] = "Closed"]
    /\ log' = IF e = "TransportError"
              THEN Append(log, [conn |-> c, kind |-> "error", content |-> e])
              ELSE log

\* Variant of Raise: the exception is not contained in the task of the
\* connection; it ends every instance of root.
RaiseEndsAll(c, op, e) ==
    /\ op \in outstanding[c]
    /\ outstanding' = [d \in Conns |-> {}]
    /\ pc' = [d \in Conns |-> "done"]
    /\ exc' = [d \in Conns |-> IF exc[d] = "none" THEN e ELSE exc[d]]
    /\ state' = [d \in Conns |-> "Closed"]
    /\ UNCHANGED log

\* An awaited operation raises e: nothing in root catches it, so root ends.
Raise(c, op, e) ==
    /\ op \in outstanding[c]
    /\ outstanding' = [outstanding EXCEPT ![c] = @ \ {op}]
    /\ pc' = [pc EXCEPT ![c] = "done"]
    /\ exc' = [exc EXCEPT ![c] = e]
    /\ state' = [state EXCEPT ![c] = "Closed"]
    /\ UNCHANGED log

\* Variant of IssueAccept: the accept is left out and the loop is entered
\* on the connection as it came.
IssueAcceptSkipped(c) ==
    /\ pc[c] = "accept"
    /\ pc' = [pc EXCEPT ![c] = "send"]
    /\ UNCHANGED <<outstanding, ops, state, received, exc, wire, inbox,
                   transmitted, peerClosed, log>>

\* line 8: await ws.accept() is called.
IssueAccept(c) ==
    /\ Issue(c, "accept", "accept")
    /\ UNCHANGED <<pc, state, received, exc, wire, inbox, transmitted,
                   peerClosed, log>>

\* line 8: the handshake completes; control enters the loop.
AcceptOk(c) ==
    /\ "accept" \in outstanding[c]
    /\ ~peerClosed[c]
    /\ outstanding' = [outstanding EXCEPT ![c] = @ \ {"accept"}]
    /\ state' = [state EXCEPT ![c] = "Open"]
    /\ pc' = [pc EXCEPT ![c] = "send"]
    /\ UNCHANGED <<ops, received, exc, wire, inbox, transmitted, peerClosed,
                   log>>

\* Variant of AcceptFail: the failure is swallowed and the loop is entered.
AcceptFailSwallowed(c) ==
    /\ "accept" \in outstanding[c]
    /\ outstanding' = [outstanding EXCEPT ![c] = @ \ {"accept"}]
    /\ exc' = [exc EXCEPT ![c] = "HandshakeError"]
    /\ state' = [state EXCEPT ![c] = "Closed"]
    /\ pc' = [pc EXCEPT ![c] = "send"]
    /\ UNCHANGED <<ops, received, wire, inbox, transmitted, peerClosed, log>>

\* Variant of AcceptFail: the failure is caught and the accept is tried
\* again on the same connection.
AcceptFailRetried(c) ==
    /\ "accept" \in outstanding[c]
    /\ outstanding' = [outstanding EXCEPT ![c] = @ \ {"accept"}]
    /\ exc' = [exc EXCEPT ![c] = "HandshakeError"]
    /\ state' = [state EXCEPT ![c] = "Closed"]
    /\ UNCHANGED <<pc, ops, received, wire, inbox, transmitted, peerClosed,
                   log>>

\* line 8: the handshake fails; the exception leaves root before the loop.
AcceptFail(c) ==
    /\ Raise(c, "accept", "HandshakeError")
    /\ UNCHANGED <<ops, received, wire, inbox, transmitted, peerClosed>>

\* Variant of IssueSend: the send is started but not awaited, and control
\* goes straight on to line 11.
IssueSendNotAwaited(c) ==
    /\ Total(wire, Conns) < MaxSends
    /\ pc[c] = "send"
    /\ outstanding' = [outstanding EXCEPT ![c] = @ \cup {"send"}]
    /\ ops' = [ops EXCEPT ![c] = Append(@, "send")]
    /\ pc' = [pc EXCEPT ![c] = "print_sent"]
    /\ UNCHANGED <<state, received, exc, wire, inbox, transmitted,
                   peerClosed, log>>

\* Variant of IssueSend: the loop has an iteration limit of one; after it
\* the greeting is not sent again.
IssueSendOnce(c) ==
    /\ Total(wire, Conns) < MaxSends
    /\ wire[c] = <<>>
    /\ Issue(c, "send", "send")
    /\ UNCHANGED <<pc, state, received, exc, wire, inbox, transmitted,
                   peerClosed, log>>

\* line 10: await ws.send_text("Hello!") is called.
IssueSend(c) ==
    /\ Total(wire, Conns) < MaxSends
    /\ Issue(c, "send", "send")
    /\ UNCHANGED <<pc, state, received, exc, wire, inbox, transmitted,
                   peerClosed, log>>

\* Variant of SendOk: what was received last is sent back instead of the
\* greeting.
SendOkEcho(c) ==
    /\ "send" \in outstanding[c]
    /\ outstanding' = [outstanding EXCEPT ![c] = @ \ {"send"}]
    /\ wire' = [wire EXCEPT ![c] =
                   Append(@, IF received[c] = Unbound THEN SentText
                             ELSE received[c])]
    /\ pc' = [pc EXCEPT ![c] = "print_sent"]
    /\ UNCHANGED <<ops, state, received, exc, inbox, transmitted, peerClosed,
                   log>>

\* line 10: the transport takes the text.
SendOk(c) ==
    /\ "send" \in outstanding[c]
    /\ outstanding' = [outstanding EXCEPT ![c] = @ \ {"send"}]
    /\ wire' = [wire EXCEPT ![c] = Append(@, SentText)]
    /\ pc' = [pc EXCEPT ![c] = "print_sent"]
    /\ UNCHANGED <<ops, state, received, exc, inbox, transmitted, peerClosed,
                   log>>

\* Variant of SendFail: the failure is caught and the send is tried again.
SendFailRetried(c, e) ==
    /\ e \in {"ConnectionClosed", "TransportError"}
    /\ e = "ConnectionClosed" => peerClosed[c]
    /\ "send" \in outstanding[c]
    /\ outstanding' = [outstanding EXCEPT ![c] = @ \ {"send"}]
    /\ exc' = [exc EXCEPT ![c] = e]
    /\ UNCHANGED <<pc, ops, state, received, wire, inbox, transmitted,
                   peerClosed, log>>

\* line 10: the send raises (peer gone, or an I/O failure).
SendFail(c, e) ==
    /\ e \in {"ConnectionClosed", "TransportError"}
    /\ e = "ConnectionClosed" => peerClosed[c]
    /\ Raise(c, "send", e)
    /\ UNCHANGED <<ops, received, wire, inbox, transmitted, peerClosed>>

\* Variant of PrintSent: the greeting is printed twice.
PrintSentTwice(c) ==
    /\ pc[c] = "print_sent"
    /\ log' = log \o <<[conn |-> c, kind |-> "sent",
                        content |-> PrintedGreeting],
                       [conn |-> c, kind |-> "sent",
                        content |-> PrintedGreeting]>>
    /\ pc' = [pc EXCEPT ![c] = "receive"]
    /\ UNCHANGED <<outstanding, ops, state, received, exc, wire, inbox,
                   transmitted, peerClosed>>

\* line 11: print("Hello!").
PrintSent(c) ==
    /\ pc[c] = "print_sent"
    /\ log' = Append(log, [conn |-> c, kind |-> "sent",
                           content |-> PrintedGreeting])
    /\ pc' = [pc EXCEPT ![c] = "receive"]
    /\ UNCHANGED <<outstanding, ops, state, received, exc, wire, inbox,
                   transmitted, peerClosed>>

\* Variant of IssueReceive: the receive does not wait; with nothing to
\* deliver the loop goes on with the next greeting.
IssueReceivePolling(c) ==
    /\ pc[c] = "receive"
    /\ "receive" \notin outstanding[c]
    /\ IF inbox[c] = <<>>
       THEN /\ pc' = [pc EXCEPT ![c] = "send"]
            /\ UNCHANGED <<outstanding, ops>>
       ELSE /\ outstanding' = [outstanding EXCEPT ![c] = @ \cup {"receive"}]
            /\ ops' = [ops EXCEPT ![c] = Append(@, "receive")]
            /\ UNCHANGED pc
    /\ UNCHANGED <<state, received, exc, wire, inbox, transmitted,
                   peerClosed, log>>

\* line 12: await ws.receive_text() is called.
IssueReceive(c) ==
    /\ Issue(c, "receive", "receive")
    /\ UNCHANGED <<pc, state, received, exc, wire, inbox, transmitted,
                   peerClosed, log>>

\* The value receive_text returns: the oldest message not yet returned.
ReceivedText(c) == Head(inbox[c])

\* Variant of ReceiveOk: `received` is a module-level variable that all
\* instances of root assign.
ReceiveOkSharedVariable(c) ==
    /\ "receive" \in outstanding[c]
    /\ inbox[c] # <<>>
    /\ outstanding' = [outstanding EXCEPT ![c] = @ \ {"receive"}]
    /\ received' = [d \in Conns |-> ReceivedText(c)]
    /\ inbox' = [inbox EXCEPT ![c] = Tail(@)]
    /\ pc' = [pc EXCEPT ![c] = "print_received"]
    /\ UNCHANGED <<ops, state, exc, wire, transmitted, peerClosed, log>>

\* Variant of ReceiveOk: the receive drains everything that is queued and
\* returns the newest message.
ReceiveOkDrains(c) ==
    /\ "receive" \in outstanding[c]
    /\ inbox[c] # <<>>
    /\ outstanding' = [outstanding EXCEPT ![c] = @ \ {"receive"}]
    /\ received' = [received EXCEPT ![c] = inbox[c][Len(inbox[c])]]
    /\ inbox' = [inbox EXCEPT ![c] = <<>>]
    /\ pc' = [pc EXCEPT ![c] = "print_received"]
    /\ UNCHANGED <<ops, state, exc, wire, transmitted, peerClosed, log>>

\* line 12: a message is there; it is assigned to `received`.
ReceiveOk(c) ==
    /\ "receive" \in outstanding[c]
    /\ inbox[c] # <<>>
    /\ outstanding' = [outstanding EXCEPT ![c] = @ \ {"receive"}]
    /\ received' = [received EXCEPT ![c] = ReceivedText(c)]
    /\ inbox' = [inbox EXCEPT ![c] = Tail(@)]
    /\ pc' = [pc EXCEPT ![c] = "print_received"]
    /\ UNCHANGED <<ops, state, exc, wire, transmitted, peerClosed, log>>

\* Variant of ReceiveFail: the failure is caught and the loop goes on with
\* the next greeting.
ReceiveFailContinued(c, e) ==
    /\ e \in {"ConnectionClosed", "TransportError"}
    /\ e = "ConnectionClosed" => (peerClosed[c] /\ inbox[c] = <<>>)
    /\ "receive" \in outstanding[c]
    /\ outstanding' = [outstanding EXCEPT ![c] = @ \ {"receive"}]
    /\ exc' = [exc EXCEPT ![c] = e]
    /\ pc' = [pc EXCEPT ![c] = "send"]
    /\ UNCHANGED <<ops, state, received, wire, inbox, transmitted,
                   peerClosed, log>>

\* line 12: the receive raises.  A close is seen after the messages that
\* were transmitted before it.
ReceiveFail(c, e) ==
    /\ e \in {"ConnectionClosed", "TransportError"}
    /\ e = "ConnectionClosed" => (peerClosed[c] /\ inbox[c] = <<>>)
    /\ Raise(c, "receive", e)
    /\ UNCHANGED <<ops, received, wire, inbox, transmitted, peerClosed>>

\* Variant of PrintedReceived: the greeting is printed again.
PrintedReceivedGreeting(c) == PrintedGreeting

\* The argument of print on line 13.
PrintedReceived(c) == received[c]

\* Variant of PrintReceived: the loop is left after its first iteration and
\* root returns.
PrintReceivedReturns(c) ==
    /\ pc[c] = "print_received"
    /\ log' = Append(log, [conn |-> c, kind |-> "received",
                           content |-> PrintedReceived(c)])
    /\ pc' = [pc EXCEPT ![c] = "done"]
    /\ UNCHANGED <<outstanding, ops, state, received, exc, wire, inbox,
                   transmitted, peerClosed>>

\* Variant of PrintReceived: the send is outside the loop, so control goes
\* back to line 12.
PrintReceivedNoResend(c) ==
    /\ pc[c] = "print_received"
    /\ log' = Append(log, [conn |-> c, kind |-> "received",
                           content |-> PrintedReceived(c)])
    /\ pc' = [pc EXCEPT ![c] = "receive"]
    /\ UNCHANGED <<outstanding, ops, state, received, exc, wire, inbox,
                   transmitted, peerClosed>>

\* line 13: print(received); line 9: back to the top of the loop.
PrintReceived(c) ==
    /\ pc[c] = "print_received"
    /\ log' = Append(log, [conn |-> c, kind |-> "received",
                           content |-> PrintedReceived(c)])
    /\ pc' = [pc EXCEPT ![c] = "send"]
    /\ UNCHANGED <<outstanding, ops, state, received, exc, wire, inbox,
                   transmitted, peerClosed>>

\* The peer of an open connection transmits a text message.
PeerTransmit(c, m) ==
    /\ state[c] = "Open"
    /\ ~peerClosed[c]
    /\ Total(transmitted, Conns) < MaxTransmit
    /\ inbox' = [inbox EXCEPT ![c] = Append(@, m)]
    /\ transmitted' = [transmitted EXCEPT ![c] = Append(@, m)]
    /\ UNCHANGED <<pc, outstanding, ops, state, received, exc, wire,
                   peerClosed, log>>

\* The peer closes the connection.
PeerClose(c) ==
    /\ pc[c] # "done"
    /\ ~peerClosed[c]
    /\ peerClosed' = [peerClosed EXCEPT ![c] = TRUE]
    /\ UNCHANGED <<pc, outstanding, ops, state, received, exc, wire, inbox,
                   transmitted, log>>

\* A step of the instance of root that serves connection c.
Handler(c) ==
    \/ IssueAccept(c)
    \/ AcceptOk(c)
    \/ AcceptFail(c)
    \/ IssueSend(c)
    \/ SendOk(c)
    \/ \E e \in Errors : SendFail(c, e)
    \/ PrintSent(c)
    \/ IssueReceive(c)
    \/ ReceiveOk(c)
    \/ \E e \in Errors : ReceiveFail(c, e)
    \/ PrintReceived(c)

\* A step of the peer of connection c.
Peer(c) ==
    \/ \E m \in Msgs : PeerTransmit(c, m)
    \/ PeerClose(c)

Next == \E c \in Conns : Handler(c) \/ Peer(c)

Spec == Init /\ [][Next]_vars

\* A run with one connection only.
NextOne == Handler(1) \/ Peer(1)

\* The scheduling of the one task: a statement that can run does run (the
\* event loop resumes a ready task), an accept or a send that was issued
\* completes one way or the other, and a receive returns once a message is
\* there.  Nothing obliges the peer to transmit or to close, and a receive
\* with nothing to deliver may wait for ever.
Fairness(c) ==
    /\ WF_vars(IssueAccept(c))
    /\ WF_vars(AcceptOk(c) \/ AcceptFail(c))
    /\ WF_vars(IssueSend(c))
    /\ WF_vars(SendOk(c) \/ \E e \in Errors : SendFail(c, e))
    /\ WF_vars(PrintSent(c))
    /\ WF_vars(IssueReceive(c))
    /\ WF_vars(ReceiveOk(c))
    /\ WF_vars(PrintReceived(c))

FairSpec == Init /\ [][NextOne]_vars /\ Fairness(1)

-----------------------------------------------------------------------------
\* Helpers of the properties.

\* The sequence s of log records is sent, received, sent, received, ...
Alternating(s) ==
    \A i \in 1..Len(s) :
        s[i].kind = IF i % 2 = 1 THEN "sent" ELSE "received"

\* The number of occurrences of op in the operations issued on c.
Issued(c, op) == Cardinality({i \in 1..Len(ops[c]) : ops[c][i] = op})

\* The number of receive operations of c that returned a message.
Returned(c) == Len(transmitted[c]) - Len(inbox[c])

\* The operation issued last on c.
LastOp(c) == ops[c][Len(ops[c])]

\* A send or a receive of c has failed.
Failed(c) == exc[c] \in {"ConnectionClosed", "TransportError"}

\* What the instance of root serving c can change.
Own(c) == <<pc[c], outstanding[c], ops[c], received[c], exc[c], wire[c],
            LogOf(c)>>

\* The receive of c is waiting, nothing is left to deliver, and the peer has
\* closed.
ClosedWhileReceiving(c) ==
    /\ "receive" \in outstanding[c]
    /\ inbox[c] = <<>>
    /\ peerClosed[c]

-----------------------------------------------------------------------------
\* C1 (P1, alternation): on every connection whose accept succeeded, the
\* logged events are sent, received, sent, received, ... starting with a
\* sent event, so no two sent events and no two received events of the
\* connection are adjacent.
C1_Alternation ==
    \A c \in Conns :
        LET s == LogOf(c) IN
        /\ Alternating(s)
        /\ \A i \in 1..(Len(s) - 1) : s[i].kind # s[i + 1].kind

\* Two full iterations and the start of a third are in the log of c = 1.
C1_Witness ==
    /\ Len(LogOf(1)) = 5
    /\ LogOf(1)[4].kind = "received"
    /\ LogOf(1)[5].kind = "sent"

\* C2 (P3, fixed greeting): every text handed to the transport and every
\* logged sent event is exactly "Hello!", in every iteration, whatever was
\* received before.
C2_FixedGreeting ==
    \A c \in Conns :
        /\ \A i \in 1..Len(wire[c]) : wire[c][i] = "Hello!"
        /\ \A i \in 1..Len(LogOf(c)) :
              LogOf(c)[i].kind = "sent" => LogOf(c)[i].content = "Hello!"

\* A greeting was sent and logged after a different text had been received.
C2_Witness ==
    /\ received[1] = "ping"
    /\ Len(wire[1]) = 2
    /\ Len(LogOf(1)) = 3

\* C3 (P2, content fidelity): the k-th logged received event of a connection
\* has exactly the content of the k-th message its peer transmitted, which
\* is what the k-th receive returned; nothing is logged as received that the
\* peer did not transmit.
C3_ContentFidelity ==
    \A c \in Conns :
        LET r == KindOf(c, "received") IN
        /\ Len(r) <= Returned(c)
        /\ \A k \in 1..Len(r) : r[k].content = transmitted[c][k]
        /\ pc[c] = "print_received" => received[c] = transmitted[c][Returned(c)]

\* Two different messages were received and logged in the order transmitted.
C3_Witness ==
    /\ transmitted[1] = <<"ping", "Hello!">>
    /\ Len(KindOf(1, "received")) = 2

\* C4 (P5, handshake failure isolation): when accept fails the instance ends
\* without entering the loop: no log event of the connection exists, nothing
\* was handed to the transport and no send or receive was ever issued.
C4_HandshakeFailure ==
    \A c \in Conns :
        exc[c] = "HandshakeError" =>
            /\ pc[c] = "done"
            /\ LogOf(c) = <<>>
            /\ wire[c] = <<>>
            /\ ops[c] = <<"accept">>
            /\ outstanding[c] = {}

\* The accept of connection 1 failed while connection 2 went on to log.
C4_Witness ==
    /\ exc[1] = "HandshakeError"
    /\ Len(LogOf(2)) >= 2

\* C5 (P4, graceful termination): once the peer has closed while the
\* instance waits in receive, the next step of the instance is its
\* termination, and it hands nothing more to the transport, neither in that
\* step nor at any time after it.
C5_GracefulTermination ==
    [][\A c \in Conns :
          /\ ClosedWhileReceiving(c) =>
                /\ wire'[c] = wire[c]
                /\ Own(c)' # Own(c) => (pc'[c] = "done" /\ exc'[c] \in Errors)
          /\ pc[c] = "done" => (pc'[c] = "done" /\ wire'[c] = wire[c])]_vars

\* The peer of connection 1 closed after one full iteration, and the second
\* receive ended the instance.
C5_Witness ==
    /\ exc[1] = "ConnectionClosed"
    /\ LastOp(1) = "receive"
    /\ Len(wire[1]) = 2
    /\ Len(LogOf(1)) = 3

\* The state of a connection whose send or receive has failed: the instance
\* has ended, the failed operation left nothing on the wire and no record,
\* and there is one record per operation that succeeded.
C6_FailedState ==
    \A c \in Conns :
        Failed(c) =>
            /\ pc[c] = "done"
            /\ outstanding[c] = {}
            /\ LastOp(c) \in {"send", "receive"}
            /\ Len(KindOf(c, "sent")) = Len(wire[c])
            /\ Len(KindOf(c, "received")) = Returned(c)
            /\ LastOp(c) = "send" =>
                  /\ Issued(c, "send") = Len(wire[c]) + 1
                  /\ Issued(c, "receive") = Returned(c)
            /\ LastOp(c) = "receive" =>
                  /\ Issued(c, "send") = Len(wire[c])
                  /\ Issued(c, "receive") = Returned(c) + 1
            /\ (transmitted[c] = <<>> /\ wire[c] # <<>>) =>
                  LogOf(c) = <<[conn |-> c, kind |-> "sent",
                                content |-> "Hello!"]>>

\* C6 (no retry, termination is permanent): a failed send or receive leaves
\* no log record and ends the instance, which from then on issues no
\* operation and prints nothing; when the peer closes after the first
\* greeting and before any reply, the log of the connection is the one
\* record sent: Hello!.
C6_NoRetry ==
    /\ []C6_FailedState
    /\ [][\A c \in Conns :
             Failed(c) =>
                 /\ pc'[c] = "done"
                 /\ exc'[c] = exc[c]
                 /\ ops'[c] = ops[c]
                 /\ outstanding'[c] = {}
                 /\ wire'[c] = wire[c]
                 /\ LogOf(c)' = LogOf(c)]_vars

\* The peer of connection 1 closed before its first reply: the first send
\* succeeded, the first receive failed, and connection 2 has logged since.
C6_Witness ==
    /\ exc[1] = "ConnectionClosed"
    /\ transmitted[1] = <<>>
    /\ Len(wire[1]) = 1
    /\ Len(log) >= 3
    /\ log[Len(log)].conn = 2

\* C7 as stated (error taxonomy outcomes): a send or receive that fails with
\* TransportError leaves an error record in the log before the task ends,
\* and one that fails with ConnectionClosed leaves none.
C7_AsStated ==
    \A c \in Conns :
        /\ exc[c] = "TransportError" =>
              \E i \in 1..Len(log) : log[i].conn = c /\ log[i].kind = "error"
        /\ exc[c] = "ConnectionClosed" =>
              \A i \in 1..Len(log) : log[i].conn = c => log[i].kind # "error"

\* C7 as amended: a send or receive that fails, with TransportError or with
\* ConnectionClosed alike, ends the task without any record being emitted for
\* the failure: the log holds only sent and received records, one per
\* successful operation.
C7_NoFailureRecord ==
    \A c \in Conns :
        Failed(c) =>
            /\ pc[c] = "done"
            /\ \A i \in 1..Len(LogOf(c)) :
                  LogOf(c)[i].kind \in {"sent", "received"}
            /\ Len(LogOf(c)) = Len(wire[c]) + Returned(c)

\* One connection ended with TransportError and the other with
\* ConnectionClosed, each after it had logged.
C7_Witness ==
    /\ exc[1] = "TransportError"
    /\ exc[2] = "ConnectionClosed"
    /\ LogOf(1) # <<>>
    /\ LogOf(2) # <<>>

\* An instance has terminated exactly when an exception has left it.
C8_TerminatedByError ==
    \A c \in Conns : pc[c] = "done" <=> exc[c] \in Errors

\* C8 (termination only by error or close): an instance terminates only in a
\* step in which its outstanding accept, send or receive fails (a close by
\* the peer included); while every operation succeeds it does not terminate,
\* however many iterations it has completed.
C8_TerminationOnlyByFailure ==
    /\ []C8_TerminatedByError
    /\ [][\A c \in Conns :
             (pc[c] # "done" /\ pc'[c] = "done") =>
                 /\ outstanding[c] # {}
                 /\ outstanding'[c] = {}
                 /\ exc[c] = "none"
                 /\ exc'[c] \in Errors
                 /\ exc'[c] = "ConnectionClosed" => peerClosed[c]]_vars

\* Connection 1 ended by a failure after a full iteration while connection 2
\* runs on after a full iteration in which nothing failed.
C8_Witness ==
    /\ pc[1] = "done"
    /\ Len(LogOf(1)) >= 2
    /\ pc[2] = "send"
    /\ exc[2] = "none"
    /\ Len(LogOf(2)) = 2

\* C9 (strict sequencing): at most one operation is outstanding on a
\* connection; the operations are issued in the order accept, send, receive,
\* send, receive, ...; receive N is issued only after send N completed and
\* send N+1 only after receive N completed.
C9_StrictSequencing ==
    \A c \in Conns :
        /\ Cardinality(outstanding[c]) <= 1
        /\ outstanding[c] # {} => outstanding[c] = {LastOp(c)}
        /\ \A i \in 1..Len(ops[c]) :
              ops[c][i] = IF i = 1 THEN "accept"
                          ELSE IF i % 2 = 0 THEN "send" ELSE "receive"
        /\ Issued(c, "receive") <= Len(wire[c])
        /\ Issued(c, "send") <= Returned(c) + 1

\* The second receive of connection 1 is outstanding.
C9_Witness ==
    /\ ops[1] = <<"accept", "send", "receive", "send", "receive">>
    /\ outstanding[1] = {"receive"}

\* The log sequence of each connection alternates and holds the greeting and
\* the messages transmitted on that connection, in order.
C10_OwnSequence ==
    \A c \in Conns :
        LET r == KindOf(c, "received") IN
        /\ Alternating(LogOf(c))
        /\ \A i \in 1..Len(LogOf(c)) :
              LogOf(c)[i].kind = "sent" => LogOf(c)[i].content = "Hello!"
        /\ Len(r) <= Len(transmitted[c])
        /\ [k \in 1..Len(r) |-> r[k].content] = SubSeq(transmitted[c], 1, Len(r))

\* C10 (Scenario C, concurrent peers): with two instances running on two
\* connections, under every interleaving each connection's own log sequence
\* is sent, received, ... with the greeting and with exactly the messages
\* transmitted on that connection, and a step that prints for one
\* connection changes nothing of the other instance.
C10_ConcurrentPeers ==
    /\ []C10_OwnSequence
    /\ [][\A c \in Conns :
             LogOf(c)' # LogOf(c) =>
                 /\ pc'[c] # pc[c]
                 /\ \A d \in Conns \ {c} : Own(d)' = Own(d)]_vars

\* Both connections have logged a received message, the two messages differ
\* and the records of the two connections are interleaved in the log.
C10_Witness ==
    /\ transmitted[1] = <<"ping">>
    /\ transmitted[2] = <<"Hello!">>
    /\ Len(log) = 4
    /\ log[1].conn # log[2].conn
    /\ log[3].kind = "received"
    /\ log[4].kind = "received"
    /\ log[3].conn # log[4].conn

\* Everything that belongs to connection c: its instance of root, its
\* lifecycle state and its peer's side.
AllOf(c) == <<Own(c), state[c], inbox[c], transmitted[c], peerClosed[c]>>

\* Whatever has happened on the other connections, the step the instance of
\* d is at can be taken.
C11_OtherCanGoOn ==
    \A c \in Conns : \A d \in Conns \ {c} :
        (exc[c] # "none" /\ exc[d] = "none") =>
            /\ "send" \in outstanding[d] => ENABLED SendOk(d)
            /\ pc[d] = "print_sent" => ENABLED PrintSent(d)
            /\ (pc[d] = "receive" /\ outstanding[d] = {}) =>
                  ENABLED IssueReceive(d)
            /\ ("receive" \in outstanding[d] /\ inbox[d] # <<>>) =>
                  ENABLED ReceiveOk(d)
            /\ pc[d] = "print_received" => ENABLED PrintReceived(d)

\* C11 (failure containment): a step in which an accept, send or receive of
\* one connection fails ends only that connection's instance; it leaves the
\* state, the outstanding operation and the log sequence of every other
\* instance unchanged, and the other instance can go on with its iterations.
C11_FailureContainment ==
    /\ []C11_OtherCanGoOn
    /\ [][\A c \in Conns :
             exc'[c] # exc[c] =>
                 /\ pc'[c] = "done"
                 /\ \A d \in Conns \ {c} : AllOf(d)' = AllOf(d)]_vars

\* Connection 1 failed in its first receive; connection 2, untouched, has
\* completed a full iteration and is in its second.
C11_Witness ==
    /\ exc[1] = "TransportError"
    /\ Len(LogOf(1)) = 1
    /\ exc[2] = "none"
    /\ Len(LogOf(2)) = 3
    /\ outstanding[2] = {"receive"}

\* The peer of c has transmitted nothing and has not closed, and nothing has
\* failed on c.
Silent(c) ==
    /\ transmitted[c] = <<>>
    /\ ~peerClosed[c]
    /\ exc[c] = "none"

\* The instance of c has sent and logged one greeting and waits in its first
\* receive.
InFirstReceive(c) ==
    /\ pc[c] = "receive"
    /\ outstanding[c] = {"receive"}
    /\ ops[c] = <<"accept", "send", "receive">>
    /\ wire[c] = <<"Hello!">>
    /\ LogOf(c) = <<[conn |-> c, kind |-> "sent", content |-> "Hello!"]>>

\* While the peer has transmitted nothing and nothing has failed, at most one
\* greeting was sent and logged, nothing was logged as received and the
\* instance has not terminated.
C12_AtMostOneGreeting ==
    \A c \in Conns :
        (transmitted[c] = <<>> /\ exc[c] = "none") =>
            /\ Len(wire[c]) <= 1
            /\ Issued(c, "send") <= 1
            /\ Len(LogOf(c)) <= 1
            /\ KindOf(c, "received") = <<>>
            /\ pc[c] # "done"

\* C12 (silent peer): if the accept and the first send succeed, the peer
\* never transmits and the connection never closes or fails, the instance
\* sends exactly one greeting, logs exactly one sent event and then stays in
\* its first receive for ever: no termination, no second greeting, no
\* received event.
C12_SilentPeer ==
    /\ []C12_AtMostOneGreeting
    /\ ([]Silent(1)) => <>[]InFirstReceive(1)

\* The instance waits in its first receive and the peer is silent.
C12_Witness == Silent(1) /\ InFirstReceive(1)

\* The receive of c waits with nothing to deliver.
AwaitingReply(c) == "receive" \in outstanding[c] /\ inbox[c] = <<>>

\* C13 (loop progress): under fair scheduling of the task, every message the
\* receive returned is eventually logged and, unless an operation fails, is
\* followed by a new greeting; so the greetings go on, up to the bound of the
\* exploration, unless an operation fails or the peer leaves a greeting
\* without reply.
C13_LoopProgress ==
    /\ (pc[1] = "print_received") ~>
           (Len(KindOf(1, "received")) = Returned(1))
    /\ \A n \in 1..(MaxSends - 1) :
           (pc[1] = "print_received" /\ Len(wire[1]) = n) ~>
               (Len(wire[1]) = n + 1 \/ exc[1] # "none")
    /\ \/ <>(Len(wire[1]) = MaxSends)
       \/ <>(exc[1] # "none")
       \/ <>[]AwaitingReply(1)

\* Two replies were logged and three greetings sent, with no failure.
C13_Witness ==
    /\ exc[1] = "none"
    /\ Len(KindOf(1, "received")) = 2
    /\ Len(wire[1]) = 3

\* C14 (one log record per successful operation): a successful send is
\* followed by exactly one sent record before the receive is issued, and a
\* successful receive by exactly one received record before the next send is
\* issued; the sent records number the successful sends or one less, the
\* received records the successful receives or one less, and the log holds
\* no other kind of record.
C14_OneRecordPerOperation ==
    /\ \A i \in 1..Len(log) : log[i].kind \in {"sent", "received"}
    /\ \A c \in Conns :
        LET sent == Len(KindOf(c, "sent"))
            recv == Len(KindOf(c, "received"))
        IN  /\ sent = IF pc[c] = "print_sent" THEN Len(wire[c]) - 1
                      ELSE Len(wire[c])
            /\ recv = IF pc[c] = "print_received" THEN Returned(c) - 1
                      ELSE Returned(c)
            /\ Issued(c, "receive") <= sent
            /\ Issued(c, "send") <= recv + 1
            /\ Len(LogOf(c)) = sent + recv

\* Connection 1 has sent three greetings and received two messages: the
\* third greeting is not yet logged, the two received messages are.
C14_Witness ==
    /\ pc[1] = "print_sent"
    /\ Len(wire[1]) = 3
    /\ Len(KindOf(1, "sent")) = 2
    /\ Len(KindOf(1, "received")) = 2

\* The lifecycle state of a connection follows its instance of root:
\* Unaccepted until the accept has completed, Closed once the instance has
\* terminated, with no operation left outstanding.
C15_ClosedWhenTerminated ==
    \A c \in Conns :
        /\ state[c] \in {"Unaccepted", "Open", "Closed"}
        /\ pc[c] = "done" => (state[c] = "Closed" /\ outstanding[c] = {})
        /\ state[c] = "Closed" => pc[c] = "done"
        /\ state[c] = "Unaccepted" <=> pc[c] = "accept"

C16_OneGreetingAhead ==
    \A c \in Conns :
        LET r == KindOf(c, "received") IN
        /\ Len(wire[c]) <= Returned(c) + 1
        /\ Returned(c) <= Len(wire[c])
        /\ Returned(c) <= Len(transmitted[c])
        /\ Issued(c, "send") <= Returned(c) + 1
        /\ Issued(c, "receive") <= Returned(c) + 1
        /\ inbox[c] = SubSeq(transmitted[c], Returned(c) + 1,
                             Len(transmitted[c]))
        /\ pc[c] = "print_received" =>
              received[c] = transmitted[c][Returned(c)]
        /\ \A k \in 1..Len(r) : r[k].content = transmitted[c][k]

\* The peer of connection 1 transmitted three messages ahead; the instance
\* has consumed the first, sent its second greeting and consumed the second.
C16_Witness ==
    /\ Len(transmitted[1]) = 3
    /\ Len(inbox[1]) = 1
    /\ Len(wire[1]) = 2
    /\ received[1] = transmitted[1][2]
    /\ transmitted[1][1] # transmitted[1][2]

\* C17 (nothing before the accept): while a connection is Unaccepted no send
\* and no receive is issued on it and no record of it is logged; the first
\* send is issued only after the accept has completed successfully, and the
\* accept is performed exactly once per connection.
C17_AcceptFirstAndOnce ==
    \A c \in Conns :
        /\ state[c] = "Unaccepted" =>
              /\ Issued(c, "send") = 0
              /\ Issued(c, "receive") = 0
              /\ wire[c] = <<>>
              /\ LogOf(c) = <<>>
        /\ Issued(c, "accept") <= 1
        /\ pc[c] # "accept" => Issued(c, "accept") = 1
        /\ (Issued(c, "send") > 0 \/ LogOf(c) # <<>>) =>
              /\ ops[c][1] = "accept"
              /\ "accept" \notin outstanding[c]
              /\ state[c] # "Unaccepted"
              /\ exc[c] # "HandshakeError"

\* The first send of connection 1 has been issued after its accept, while
\* connection 2 is still in its accept and has issued nothing else.
C17_Witness ==
    /\ ops[1] = <<"accept", "send">>
    /\ state[1] = "Open"
    /\ state[2] = "Unaccepted"
    /\ outstanding[2] = {"accept"}
    /\ peerClosed[2]

=============================================================================
